---- MODULE Spec2Model ----
(***************************************************************************)
(* QuizMaster Pro (src/script.js, lines 1-1286): the quiz session state    *)
(* machine.  State is the global session object of the script, ui the part *)
(* of the DOM the handlers read back (the next button and the option       *)
(* cards), pending the callbacks handed to setTimeout and the fetch that   *)
(* is awaited.  Every handler of the script is an operator on the record   *)
(* of these four; an action applies one handler to the current record.     *)
(* board is the player's document in the "users" collection of Firestore   *)
(* together with the saveHighScore executions under way on it.             *)
(***************************************************************************)
EXTENDS Integers, Sequences, FiniteSets, TLC

VARIABLES State, ui, screen, pending, fetched, last, board

vars == <<State, ui, screen, pending, fetched, last, board>>

----------------------------------------------------------------------------
(* Bounds of the model *)

\* largest number of questions a player asks for (State.config.amount)
MaxAmount == 2
\* answer options fetched over one run, all questions of all sessions together
MaxFetched == 4
\* result-display callbacks (setTimeout 800) that may be pending at once
MaxPending == 2
\* largest streak the scoring specification starts from
MaxStreak == 8

----------------------------------------------------------------------------
(* CONSTANTS of the script *)

TIMER_EASY == 60
TIMER_MEDIUM == 50
TIMER_HARD == 40
TIMER_BASE == 15
POINTS_PER_Q == 10

\* the difficulties the player chooses among in the main specification
Difficulties == {""}
\* the moments at which the modelled player acts on the quiz screen, as values
\* of timeLeft: at once, in the last second, and after the countdown ran out
ActTimes == {TIMER_BASE, 1, 0}

----------------------------------------------------------------------------
(* JS strings and the DOM's innerHTML.  A string is a sequence of tokens: a *)
(* token is a character or a character reference as it is spelled in the   *)
(* text ("&#039;" is the six characters & # 0 3 9 ;).                      *)

Undefined == << "<undefined>" >>
Null == << "<null>" >>

\* the HTML parser turns a character reference into the character it names
DecodeToken(t) ==
    CASE t = "&#039;" -> "'"
      [] t = "&quot;" -> "\""
      [] t = "&amp;" -> "&"
      [] t = "&lt;" -> "<"
      [] OTHER -> t

\* the HTML serializer escapes &, < and > in text and nothing else
EscapeChar(c) ==
    CASE c = "&" -> "&amp;"
      [] c = "<" -> "&lt;"
      [] c = ">" -> "&gt;"
      [] OTHER -> c

\* el.innerHTML = s  (parse)
ParseHTML(s) == [i \in 1..Len(s) |-> DecodeToken(s[i])]

\* el.innerHTML read back (serialize)
SerializeHTML(t) == [i \in 1..Len(t) |-> EscapeChar(t[i])]

\* what c.innerHTML returns after btn.innerHTML = ans
innerHTML(ans) == SerializeHTML(ParseHTML(ans))

----------------------------------------------------------------------------
(* The question documents of the store *)

\* (the fields of a document the game never reads are left out)
DocBool1 ==
    [id |-> 1, correct_answer |-> <<"T">>, incorrect_answers |-> << <<"F">> >>]

DocBool2 ==
    [id |-> 2, correct_answer |-> <<"T">>, incorrect_answers |-> << <<"F">> >>]

DocEntity ==
    [id |-> 3, correct_answer |-> <<"&#039;">>,
     incorrect_answers |-> << <<"a">>, <<"&amp;">> >>]

Bank == {DocBool1, DocBool2, DocEntity}

\* the answer options of a set of documents
RECURSIVE Weight(_)
Weight(docs) ==
    IF docs = {} THEN 0
    ELSE LET d == CHOOSE x \in docs : TRUE
         IN  Len(d.incorrect_answers) + 1 + Weight(docs \ {d})

\* all orderings of the elements of a finite set
RECURSIVE Orderings(_)
Orderings(S) ==
    IF S = {} THEN { <<>> }
    ELSE UNION { { <<x>> \o r : r \in Orderings(S \ {x}) } : x \in S }

Range(f) == { f[i] : i \in DOMAIN f }

\* arr.sort(() => Math.random() - 0.5): any order of the same elements
Shuffles(arr) ==
    { [i \in 1..Len(arr) |-> arr[p[i]]] : p \in Orderings(1..Len(arr)) }

Min(a, b) == IF a < b THEN a ELSE b
Max(a, b) == IF a > b THEN a ELSE b

\* SelectedDocs without the slice: every document fetched is selected
SelectedDocsUnsliced(allDocs, amount) ==
    Orderings(allDocs)

\* allDocs.sort(random).slice(0, amount)
SelectedDocs(allDocs, amount) ==
    UNION { Orderings(sub) :
            sub \in { s \in SUBSET allDocs :
                      Cardinality(s) = Min(amount, Cardinality(allDocs)) } }

\* GameQuestions that shuffles the incorrect answers only
GameQuestionsWrongOnly(sel) ==
    { qs \in [1..Len(sel) ->
                UNION { { [correct_answer |-> d.correct_answer,
                           incorrect_answers |-> d.incorrect_answers,
                           answers |-> a,
                           userSelected |-> Undefined]
                          : a \in Shuffles(d.incorrect_answers) }
                        : d \in Range(sel) }] :
        \A i \in 1..Len(sel) :
            /\ qs[i].correct_answer = sel[i].correct_answer
            /\ qs[i].incorrect_answers = sel[i].incorrect_answers }

\* step 5 of fetchQuestions: one game question per selected document
GameQuestions(sel) ==
    { qs \in [1..Len(sel) ->
                UNION { { [correct_answer |-> d.correct_answer,
                           incorrect_answers |-> d.incorrect_answers,
                           answers |-> a,
                           userSelected |-> Undefined]
                          : a \in Shuffles(Append(d.incorrect_answers, d.correct_answer)) }
                        : d \in Range(sel) }] :
        \A i \in 1..Len(sel) :
            /\ qs[i].correct_answer = sel[i].correct_answer
            /\ qs[i].incorrect_answers = sel[i].incorrect_answers }

----------------------------------------------------------------------------
(* The handlers.  g is the record [S, ui, screen, pending]: S is State.     *)

G == [S |-> State, ui |-> ui, screen |-> screen, pending |-> pending]

\* State.questions[State.currIndex]; JS arrays start at 0, sequences at 1
HasQuestion(g) == g.S.currIndex + 1 \in DOMAIN g.S.questions
CurrentQuestion(g) == g.S.questions[g.S.currIndex + 1]

\* TimerFor that gives every difficulty the default countdown
TimerForDefault(difficulty) ==
    TIMER_BASE

TimerFor(difficulty) ==
    CASE difficulty = "easy" -> TIMER_EASY
      [] difficulty = "medium" -> TIMER_MEDIUM
      [] difficulty = "hard" -> TIMER_HARD
      [] OTHER -> TIMER_BASE

\* the option cards renderQuestion builds, in the order of q.answers
OptionCards(q) ==
    [i \in 1..Len(q.answers) |->
        [ans |-> q.answers[i], correct |-> q.correct_answer,
         html |-> innerHTML(q.answers[i]), onclick |-> TRUE, hidden |-> FALSE]]

\* clearInterval(STATE.timer): the interval STATE.timer names fires no more
clearInterval(g) == [g EXCEPT !.S.timer = FALSE]

\* STATE.timer = setInterval(...): State.timer tells whether the interval that
\* STATE.timer names is live; an interval still live when STATE.timer is
\* overwritten can no longer be cleared and is counted in pending.strays
setInterval(g) ==
    [g EXCEPT !.S.timer = TRUE,
              !.pending.strays = @ + (IF g.S.timer THEN 1 ELSE 0)]

\* startTimer without its clearInterval
startTimerKeepsOld(g) == setInterval(g)

\* startTimer: clearInterval, then a fresh interval
startTimer(g) == setInterval(clearInterval(g))

\* renderQuestion that hands the lifelines out again
renderQuestionRestoresLifelines(g) ==
    startTimer(
        [g EXCEPT !.ui.cards = OptionCards(CurrentQuestion(g)),
                  !.pending.result = [i \in 1..Len(@) |-> FALSE],
                  !.pending.unfreeze = [i \in 1..Len(@) |-> FALSE],
                  !.S.timeLeft = TimerFor(g.S.config.difficulty),
                  !.S.isFrozen = FALSE,
                  !.S.lifelines = [fifty |-> TRUE, freeze |-> TRUE, skip |-> TRUE]])

\* renderQuestion: new cards (the callbacks pending hold the old ones), the
\* countdown of the configured difficulty, unfrozen, timer started
renderQuestion(g) ==
    startTimer(
        [g EXCEPT !.ui.cards = OptionCards(CurrentQuestion(g)),
                  !.pending.result = [i \in 1..Len(@) |-> FALSE],
                  !.pending.unfreeze = [i \in 1..Len(@) |-> FALSE],
                  !.S.timeLeft = TimerFor(g.S.config.difficulty),
                  !.S.isFrozen = FALSE])

\* Points with Math.floor in the place of Math.round
PointsFloor(timeLeft, streak) ==
    LET timeBonus == Max(0, timeLeft)
        streakMult10 == 10 + (streak \div 3)
    IN  ((POINTS_PER_Q + timeBonus) * streakMult10) \div 10

\* Math.round((POINTS_PER_Q + timeBonus) * streakMult), streakMult in tenths
Points(timeLeft, streak) ==
    LET timeBonus == Max(0, timeLeft)
        streakMult10 == 10 + (streak \div 3)
    IN  (2 * (POINTS_PER_Q + timeBonus) * streakMult10 + 10) \div 20

addXP(g, amount) ==
    LET xp == g.S.xp + amount
        nextLevel == (xp \div 100) + 1
    IN  [g EXCEPT !.S.xp = xp,
                  !.S.level = IF nextLevel > @ THEN nextLevel ELSE @]

\* what getDoc finds for the user: no document, or one with xp and level,
\* where 0 stands for a field that is absent or 0
NoDoc == [exists |-> FALSE]
UserSnaps ==
    {NoDoc} \cup { [exists |-> TRUE, xp |-> x, level |-> l] :
                     x \in {0, 250}, l \in {0, 1, 3} }

\* syncCloudData once getDoc has answered with snap
syncCloudData(g, snap) ==
    IF snap.exists
    THEN [g EXCEPT !.S.xp = IF snap.xp # 0 THEN snap.xp ELSE @,
                   !.S.level = IF snap.level # 0 THEN snap.level ELSE @,
                   !.pending.user = @ \ {"sync"}]
    ELSE [g EXCEPT !.pending.user = @ \ {"sync"}]

\* loadUserData(uid) once getDoc has answered with snap
loadUserData(g, snap) ==
    IF snap.exists
    THEN [g EXCEPT !.S.xp = snap.xp,
                   !.S.level = IF snap.level # 0 THEN snap.level
                               ELSE (snap.xp \div 100) + 1,
                   !.pending.user = @ \ {"load"}]
    ELSE [g EXCEPT !.pending.user = @ \ {"load"}]

\* the guard of handleAnswer
AnswerGuard(g) == g.ui.nextBtnDisabled

\* answerCorrect that does not count the answer into the streak
answerCorrectKeepsStreak(g, points) ==
    addXP([g EXCEPT !.S.score = @ + points,
                    !.S.correctCount = @ + 1], points)

\* the correct branch of handleAnswer
answerCorrect(g, points) ==
    addXP([g EXCEPT !.S.score = @ + points,
                    !.S.streak = @ + 1,
                    !.S.correctCount = @ + 1], points)

\* answerIncorrect that leaves the streak standing
answerIncorrectKeepsStreak(g) ==
    [g EXCEPT !.S.wrongCount = @ + 1]

\* the incorrect branch of handleAnswer
answerIncorrect(g) ==
    [g EXCEPT !.S.streak = 0,
              !.S.wrongCount = @ + 1]

\* handleAnswer(btn, selected, correct) for the click on card i
handleAnswer(g, i) ==
    IF ~AnswerGuard(g) THEN g
    ELSE IF ~HasQuestion(g) THEN [g EXCEPT !.S.timer = FALSE]
    ELSE
        LET card == g.ui.cards[i]
            isCorrect == card.ans = card.correct
            g1 == [g EXCEPT !.S.timer = FALSE,
                            !.S.questions[g.S.currIndex + 1].userSelected = card.ans]
            points == Points(g.S.timeLeft, g.S.streak)
            g2 == IF isCorrect THEN answerCorrect(g1, points)
                  ELSE answerIncorrect(g1)
        IN  [g2 EXCEPT !.pending.result = Append(@, TRUE)]

\* the callback handleAnswer hands to setTimeout(..., 800); own tells whether
\* the cards it holds are still the cards on the page
resultCallback(g, own) ==
    [g EXCEPT !.ui.cards = IF own THEN [i \in DOMAIN @ |-> [@[i] EXCEPT !.onclick = FALSE]]
                           ELSE @,
              !.ui.nextBtnDisabled = FALSE]

\* handleTimeOut that leaves the streak standing
handleTimeOutKeepsStreak(g) ==
    IF ~HasQuestion(g) THEN g
    ELSE [g EXCEPT !.S.questions[g.S.currIndex + 1].userSelected = Null,
                   !.ui.cards = [i \in DOMAIN @ |-> [@[i] EXCEPT !.onclick = FALSE]],
                   !.ui.nextBtnDisabled = FALSE]

\* handleTimeOut that resets the streak before it reads the current question
handleTimeOutStreakFirst(g) ==
    IF ~HasQuestion(g) THEN [g EXCEPT !.S.streak = 0]
    ELSE [g EXCEPT !.S.questions[g.S.currIndex + 1].userSelected = Null,
                   !.ui.cards = [i \in DOMAIN @ |-> [@[i] EXCEPT !.onclick = FALSE]],
                   !.S.streak = 0,
                   !.ui.nextBtnDisabled = FALSE]

\* handleTimeOut; with no current question q is undefined and line 802 throws
handleTimeOut(g) ==
    IF ~HasQuestion(g) THEN g
    ELSE [g EXCEPT !.S.questions[g.S.currIndex + 1].userSelected = Null,
                   !.ui.cards = [i \in DOMAIN @ |-> [@[i] EXCEPT !.onclick = FALSE]],
                   !.S.streak = 0,
                   !.ui.nextBtnDisabled = FALSE]

\* timerTick that goes on counting after the timeout
timerTickNoHalt(g) ==
    IF g.S.isFrozen THEN g
    ELSE LET g1 == [g EXCEPT !.S.timeLeft = @ - 1]
         IN  IF g1.S.timeLeft <= 0
             THEN handleTimeOut(g1)
             ELSE g1

\* the setInterval callback of startTimer
timerTick(g) ==
    IF g.S.isFrozen THEN g
    ELSE LET g1 == [g EXCEPT !.S.timeLeft = @ - 1]
         IN  IF g1.S.timeLeft <= 0
             THEN handleTimeOut([g1 EXCEPT !.S.timer = FALSE])
             ELSE g1

\* Accuracy with Math.floor in the place of Math.round
AccuracyFloor(correctCount, wrongCount) ==
    LET totalAnswered == correctCount + wrongCount
    IN  IF totalAnswered > 0
        THEN (100 * correctCount) \div totalAnswered
        ELSE 0

\* the accuracy endGame displays: Math.round((correctCount / totalAnswered) * 100)
Accuracy(correctCount, wrongCount) ==
    LET totalAnswered == correctCount + wrongCount
    IN  IF totalAnswered > 0
        THEN (200 * correctCount + totalAnswered) \div (2 * totalAnswered)
        ELSE 0

\* FinalMessage whose thresholds are exclusive
FinalMessageExclusive(accuracy) ==
    IF accuracy > 80 THEN "Quiz Master!"
    ELSE IF accuracy > 60 THEN "Good Job!"
    ELSE IF accuracy > 40 THEN "Keep Practicing!"
    ELSE "Try Again!"

\* the text endGame writes into .final-message (the emoji before it left out)
FinalMessage(accuracy) ==
    IF accuracy >= 80 THEN "Quiz Master!"
    ELSE IF accuracy >= 60 THEN "Good Job!"
    ELSE IF accuracy >= 40 THEN "Keep Practicing!"
    ELSE "Try Again!"

\* endGame that reports the total xp as the session's xp
endGameTotalXP(g) ==
    LET accuracy == Accuracy(g.S.correctCount, g.S.wrongCount)
    IN  [g EXCEPT !.screen = "result",
                  !.S.xpGained = g.S.xp,
                  !.ui.accuracy = accuracy,
                  !.ui.message = FinalMessage(accuracy),
                  !.pending.endGames = @ + 1]

endGame(g) ==
    LET accuracy == Accuracy(g.S.correctCount, g.S.wrongCount)
    IN  [g EXCEPT !.screen = "result",
                  !.S.xpGained = g.S.score,
                  !.ui.accuracy = accuracy,
                  !.ui.message = FinalMessage(accuracy),
                  !.pending.endGames = @ + 1]

\* the 'Potential' value of renderChart
Potential(g) == (Len(g.S.questions) * 25) - g.S.score

\* nextQuestion that ends the session one question early
nextQuestionEndsEarly(g) ==
    LET g1 == [g EXCEPT !.S.currIndex = @ + 1,
                        !.ui.nextBtnDisabled = TRUE]
    IN  IF g1.S.currIndex + 1 < Len(g1.S.questions)
        THEN renderQuestion(g1)
        ELSE endGame(g1)

nextQuestion(g) ==
    LET g1 == [g EXCEPT !.S.currIndex = @ + 1,
                        !.ui.nextBtnDisabled = TRUE]
    IN  IF g1.S.currIndex < Len(g1.S.questions)
        THEN renderQuestion(g1)
        ELSE endGame(g1)

\* indices of the cards use5050 hides: the first two whose innerHTML differs
\* from q.correct_answer
WrongCards(cards, q) ==
    SelectSeq([i \in DOMAIN cards |-> i],
              LAMBDA i : cards[i].html # q.correct_answer)

use5050(g) ==
    IF ~g.S.lifelines.fifty THEN g
    ELSE
        LET wrongCards == WrongCards(g.ui.cards, CurrentQuestion(g))
            hide == { wrongCards[k] : k \in (1..2) \cap DOMAIN wrongCards }
        IN  [g EXCEPT !.ui.cards = [i \in DOMAIN @ |->
                                      [@[i] EXCEPT !.hidden = @ \/ i \in hide]],
                      !.S.lifelines.fifty = FALSE]

\* useFreeze without its guard
useFreezeUnguarded(g) ==
    [g EXCEPT !.S.isFrozen = TRUE,
              !.S.lifelines.freeze = FALSE,
              !.pending.unfreeze = Append(@, TRUE)]

useFreeze(g) ==
    IF ~g.S.lifelines.freeze THEN g
    ELSE [g EXCEPT !.S.isFrozen = TRUE,
                   !.S.lifelines.freeze = FALSE,
                   !.pending.unfreeze = Append(@, TRUE)]

\* the callback useFreeze hands to setTimeout(..., 10000)
unfreezeCallback(g) ==
    [g EXCEPT !.S.isFrozen = FALSE,
              !.pending.unfreeze = Tail(@)]

\* useSkip without its clearInterval
useSkipKeepsTimer(g) ==
    IF ~g.S.lifelines.skip THEN g
    ELSE nextQuestion([g EXCEPT !.S.lifelines.skip = FALSE,
                                !.S.score = @ + POINTS_PER_Q])

useSkip(g) ==
    IF ~g.S.lifelines.skip THEN g
    ELSE nextQuestion([g EXCEPT !.S.lifelines.skip = FALSE,
                                !.S.score = @ + POINTS_PER_Q,
                                !.S.timer = FALSE])

stateReset(g) ==
    [g EXCEPT !.S.score = 0,
              !.S.questions = <<>>]

goHome(g) == [stateReset(g) EXCEPT !.screen = "start"]

\* ResetGame that resets the player's xp and level as well
ResetGameClearsXP(g) ==
    [g EXCEPT !.S.currIndex = 0,
              !.S.score = 0,
              !.S.streak = 0,
              !.S.correctCount = 0,
              !.S.wrongCount = 0,
              !.S.lifelines = [fifty |-> TRUE, freeze |-> TRUE, skip |-> TRUE],
              !.S.isFrozen = FALSE,
              !.S.xp = 0,
              !.S.level = 1]

\* the reset startGame and startNextSet share
ResetGame(g) ==
    [g EXCEPT !.S.currIndex = 0,
              !.S.score = 0,
              !.S.streak = 0,
              !.S.correctCount = 0,
              !.S.wrongCount = 0,
              !.S.lifelines = [fifty |-> TRUE, freeze |-> TRUE, skip |-> TRUE],
              !.S.isFrozen = FALSE]

startGame(g) == renderQuestion([ResetGame(g) EXCEPT !.screen = "quiz"])

----------------------------------------------------------------------------
(* saveHighScore: the player's document of the "users" collection and the  *)
(* two halves of an execution, before and after its await getDoc.          *)

\* userDoc.exists() is false
NoUserDoc == [exists |-> FALSE, score |-> 0, totalGames |-> 0]

\* no saveHighScore is under way
NoBoard == [doc |-> NoUserDoc, prior |-> NoUserDoc, saves |-> <<>>]

\* saveHighScore up to its await getDoc, called with STATE.score = score
saveHighScoreCalled(score) ==
    [pc |-> "getDoc", score |-> score, totalScore |-> score, totalGames |-> 1]

\* getDoc has answered with userDoc: totalScore and totalGames are computed
\* from it and setDoc is awaited
saveHighScoreRead(save, userDoc) ==
    IF userDoc.exists
    THEN [save EXCEPT !.pc = "setDoc",
                      !.totalScore = userDoc.score + save.score,
                      !.totalGames = userDoc.totalGames + 1]
    ELSE [save EXCEPT !.pc = "setDoc"]

\* the document after setDoc(userDocRef, {score, totalGames, ...}, {merge})
saveHighScoreWritten(save) ==
    [exists |-> TRUE, score |-> save.totalScore, totalGames |-> save.totalGames]

----------------------------------------------------------------------------
(* Initial state: the State literal of lines 25-42, the start screen, the  *)
(* next button disabled as the page's markup has it, nothing pending.      *)

InitState ==
    [questions |-> <<>>, currIndex |-> 0, score |-> 0, streak |-> 0,
     timer |-> FALSE, timeLeft |-> TIMER_BASE,
     config |-> [amount |-> 10, difficulty |-> ""],
     lifelines |-> [fifty |-> TRUE, freeze |-> TRUE, skip |-> TRUE],
     isFrozen |-> FALSE, xp |-> 0, level |-> 1,
     correctCount |-> 0, wrongCount |-> 0, xpGained |-> 0]

InitG ==
    [S |-> InitState,
     ui |-> [nextBtnDisabled |-> TRUE, cards |-> <<>>, accuracy |-> 0,
             message |-> ""],
     screen |-> "start",
     pending |-> [result |-> <<>>, unfreeze |-> <<>>, fetch |-> "none",
                      user |-> {}, strays |-> 0, endGames |-> 0]]

----------------------------------------------------------------------------
(* History, kept for stating the properties: last.op is the handler that   *)
(* ran last, last.pre the values it found, and last.q counts, for every    *)
(* question of State.questions, the submissions handleAnswer accepted for  *)
(* it and the timeouts handleTimeOut handled for it.                       *)

Snapshot(g) ==
    [score |-> g.S.score, streak |-> g.S.streak, xp |-> g.S.xp,
     level |-> g.S.level, correctCount |-> g.S.correctCount,
     wrongCount |-> g.S.wrongCount, currIndex |-> g.S.currIndex,
     timeLeft |-> g.S.timeLeft, isFrozen |-> g.S.isFrozen,
     lifelines |-> g.S.lifelines, timer |-> g.S.timer, screen |-> g.screen,
     nextBtnDisabled |-> g.ui.nextBtnDisabled,
     nQuestions |-> Len(g.S.questions)]

NoHistory(n) == [i \in 1..n |-> [submits |-> 0, timeouts |-> 0]]

\* the step that runs handler op on the current record G and yields g; avail
\* is the number of documents fetchQuestions had to choose from, 0 for the
\* other handlers
\* last.ends takes over pending.endGames, the number of times the handler ran
\* endGame (and so called saveHighScore, line 930)
Step(g, op, avail) ==
    /\ State' = g.S
    /\ ui' = g.ui
    /\ screen' = g.screen
    /\ pending' = [g.pending EXCEPT !.endGames = 0]
    /\ last' = [op |-> op,
                avail |-> avail,
                ends |-> g.pending.endGames,
                pre |-> Snapshot(G),
                q |-> IF op \in {"startGame", "renderNextSet", "goHome", "fetchFails"}
                      THEN NoHistory(Len(g.S.questions))
                      ELSE IF op = "handleAnswer"
                      THEN [last.q EXCEPT ![State.currIndex + 1].submits = @ + 1]
                      ELSE IF op = "handleTimeOut"
                      THEN [last.q EXCEPT ![State.currIndex + 1].timeouts = @ + 1]
                      ELSE last.q]

Becomes(g, op) == Step(g, op, 0)

Init ==
    /\ State = InitG.S
    /\ ui = InitG.ui
    /\ screen = InitG.screen
    /\ pending = InitG.pending
    /\ fetched = 0
    /\ board = NoBoard
    /\ last = [op |-> "init", avail |-> 0, ends |-> 0, pre |-> Snapshot(InitG), q |-> <<>>]

----------------------------------------------------------------------------
(* The events *)

\* the store can still deliver a question within the bound of the run
CanFetch == \E d \in Bank : fetched + Weight({d}) <= MaxFetched

\* submit of the setup form: validateAndStart up to its await (the modelled
\* player stops asking once the bound of the run is used up)
ValidateAndStart ==
    /\ screen = "start"
    /\ pending.fetch = "none"
    /\ CanFetch
    /\ \E amount \in 1..MaxAmount, difficulty \in Difficulties :
         Becomes([G EXCEPT !.S.config = [amount |-> amount, difficulty |-> difficulty],
                           !.screen = "loader",
                           !.pending.fetch = "start"],
                 "validateAndStart")
    /\ UNCHANGED <<fetched, board>>

\* click on "next set": startNextSet up to its await
ClickNextSet ==
    /\ screen = "result"
    /\ pending.fetch = "none"
    /\ Becomes([ResetGame(G) EXCEPT !.screen = "loader",
                                    !.pending.fetch = "nextSet"],
               "startNextSet")
    /\ UNCHANGED <<fetched, board>>

\* fetchQuestions resolves with questions: validateAndStart goes on to
\* startGame, startNextSet to its renderQuestion
FetchQuestions ==
    /\ pending.fetch # "none"
    /\ \E allDocs \in SUBSET Bank :
         /\ allDocs # {}
         /\ \E sel \in SelectedDocs(allDocs, State.config.amount) :
              /\ fetched + Weight(Range(sel)) <= MaxFetched
              /\ \E qs \in GameQuestions(sel) :
                 LET g == [G EXCEPT !.S.questions = qs, !.pending.fetch = "none"]
                 IN /\ IF pending.fetch = "start"
                       THEN Step(startGame(g), "startGame", Cardinality(allDocs))
                       ELSE Step(renderQuestion([g EXCEPT !.screen = "quiz"]),
                                 "renderNextSet", Cardinality(allDocs))
                    /\ fetched' = fetched + Weight(Range(sel))
                    /\ UNCHANGED board

\* FetchFails whose validateAndStart leaves the loader on the page
FetchFailsStaysOnLoader ==
    /\ pending.fetch # "none"
    /\ Becomes(IF pending.fetch = "start"
               THEN [G EXCEPT !.pending.fetch = "none"]
               ELSE goHome([G EXCEPT !.pending.fetch = "none"]),
               "fetchFails")
    /\ UNCHANGED <<fetched, board>>

\* fetchQuestions throws: validateAndStart returns to the setup screen,
\* startNextSet calls goHome
FetchFails ==
    /\ pending.fetch # "none"
    /\ Becomes(IF pending.fetch = "start"
               THEN [G EXCEPT !.screen = "start", !.pending.fetch = "none"]
               ELSE goHome([G EXCEPT !.pending.fetch = "none"]),
               "fetchFails")
    /\ UNCHANGED <<fetched, board>>

\* click (or key 1-4) on an option card, at one of the given times
Click(times) ==
    /\ screen = "quiz"
    /\ State.timeLeft \in times
    /\ Len(pending.result) < MaxPending
    /\ \E i \in DOMAIN ui.cards :
         /\ ui.cards[i].onclick
         /\ Becomes(handleAnswer(G, i),
                    IF AnswerGuard(G) /\ HasQuestion(G)
                    THEN "handleAnswer" ELSE "ignoredAnswer")
    /\ UNCHANGED <<fetched, board>>

ClickOption == Click(ActTimes)

\* the oldest pending result-display callback runs
ResultTimeout ==
    /\ pending.result # <<>>
    /\ Becomes(resultCallback([G EXCEPT !.pending.result = Tail(@)],
                              Head(pending.result)),
               "resultCallback")
    /\ UNCHANGED <<fetched, board>>

\* the interval fires; a result callback still pending was scheduled before
\* the interval was started and runs first
Tick ==
    /\ State.timer
    /\ pending.result = <<>>
    /\ Becomes(timerTick(G),
               IF State.isFrozen THEN "frozenTick"
               ELSE IF State.timeLeft - 1 > 0 THEN "tick"
               ELSE IF HasQuestion(G) THEN "handleTimeOut"
               ELSE "failedTimeOut")
    /\ UNCHANGED <<fetched, board>>

\* the callback of useFreeze runs
Unfreeze ==
    /\ pending.unfreeze # <<>>
    /\ Becomes(unfreezeCallback(G),
               IF Head(pending.unfreeze) THEN "unfreeze" ELSE "staleUnfreeze")
    /\ UNCHANGED <<fetched, board>>

\* Advance without the check that the quiz screen is the active one
AdvanceAnyScreen(times) ==
    /\ State.timeLeft \in times
    /\ ~ui.nextBtnDisabled
    /\ Becomes(nextQuestion(G), "nextQuestion")
    /\ UNCHANGED <<fetched, board>>

\* click on the next button, or Enter / Space, at one of the given times
Advance(times) ==
    /\ screen = "quiz"
    /\ State.timeLeft \in times
    /\ ~ui.nextBtnDisabled
    /\ Becomes(nextQuestion(G), "nextQuestion")
    /\ UNCHANGED <<fetched, board>>

ClickNext == Advance(ActTimes)

Click5050 ==
    /\ screen = "quiz"
    /\ State.timeLeft \in ActTimes
    /\ Becomes(use5050(G), "use5050")
    /\ UNCHANGED <<fetched, board>>

ClickFreeze ==
    /\ screen = "quiz"
    /\ State.timeLeft \in ActTimes
    /\ Becomes(useFreeze(G), "useFreeze")
    /\ UNCHANGED <<fetched, board>>

ClickSkip ==
    /\ screen = "quiz"
    /\ State.timeLeft \in ActTimes
    /\ Becomes(useSkip(G), "useSkip")
    /\ UNCHANGED <<fetched, board>>

\* quit button of the quiz (confirmQuitQuiz), home / restart of the results
ClickHome ==
    /\ \/ screen = "quiz" /\ State.timeLeft \in ActTimes
       \/ screen = "result"
    /\ Becomes(goHome(G), "goHome")
    /\ UNCHANGED <<fetched, board>>

Next ==
    \/ ValidateAndStart
    \/ ClickNextSet
    \/ FetchQuestions
    \/ FetchFails
    \/ ClickOption
    \/ ResultTimeout
    \/ Tick
    \/ Unfreeze
    \/ ClickNext
    \/ Click5050
    \/ ClickFreeze
    \/ ClickSkip
    \/ ClickHome

Spec == Init /\ [][Next]_vars

----------------------------------------------------------------------------
(* The scoring specification: a session under way in which the first s     *)
(* questions were answered correctly the moment they were presented and    *)
(* the next one is on the page with t seconds left, for every streak s up  *)
(* to MaxStreak, every difficulty and every t the countdown passes.        *)

AllDifficulties == {"easy", "medium", "hard", ""}

ScoreQuestions(n) ==
    [i \in 1..n |->
        [correct_answer |-> <<"T">>, incorrect_answers |-> << <<"F">> >>,
         answers |-> << <<"F">>, <<"T">> >>,
         userSelected |-> IF i < n THEN <<"T">> ELSE Undefined]]

RECURSIVE PriorScore(_, _)
PriorScore(s, full) ==
    IF s = 0 THEN 0 ELSE PriorScore(s - 1, full) + Points(full, s - 1)

ScoreG(s, difficulty, t) ==
    LET sc == PriorScore(s, TimerFor(difficulty))
    IN  [S |-> [InitState EXCEPT
                  !.questions = ScoreQuestions(s + 1),
                  !.currIndex = s, !.streak = s, !.correctCount = s,
                  !.score = sc, !.xp = sc, !.level = (sc \div 100) + 1,
                  !.timer = TRUE, !.timeLeft = t,
                  !.config = [amount |-> s + 1, difficulty |-> difficulty]],
         ui |-> [nextBtnDisabled |-> TRUE,
                 cards |-> OptionCards(ScoreQuestions(s + 1)[s + 1]),
                 accuracy |-> 0, message |-> ""],
         screen |-> "quiz",
         pending |-> [result |-> <<>>, unfreeze |-> <<>>, fetch |-> "none",
                      user |-> {}, strays |-> 0, endGames |-> 0]]

InitScore ==
    \E s \in 0..MaxStreak, difficulty \in AllDifficulties :
      \E t \in 1..TimerFor(difficulty) :
        LET g == ScoreG(s, difficulty, t)
        IN  /\ State = g.S
            /\ ui = g.ui
            /\ screen = g.screen
            /\ pending = g.pending
            /\ fetched = 0
            /\ board = NoBoard
            /\ last = [op |-> "init", avail |-> 0, ends |-> 0, pre |-> Snapshot(g),
                       q |-> [i \in 1..(s + 1) |->
                                [submits |-> IF i <= s THEN 1 ELSE 0,
                                 timeouts |-> 0]]]

ClickAnyTime == Click(0..TIMER_EASY)

NextScore ==
    \/ ClickAnyTime
    \/ ResultTimeout

SpecScore == InitScore /\ [][NextScore]_vars

----------------------------------------------------------------------------
(* The chart specification: the session of the scoring specification, on   *)
(* its last question, goes on to its end.                                  *)

ClickNextEasy == Advance(0..TIMER_EASY)

NextChart ==
    \/ NextScore
    \/ ClickNextEasy

SpecChart == InitScore /\ [][NextChart]_vars

----------------------------------------------------------------------------
(* The user-data specification: the player has clicked the login button,   *)
(* whose two listeners (handleGoogleLogin, initAuth) each read the user's   *)
(* document, and plays on while the two reads are under way: a session in  *)
(* which s questions were answered correctly, as in the scoring            *)
(* specification, with loadUserData and syncCloudData still to complete.   *)

InitUser ==
    \E s \in 0..MaxStreak, t \in {TIMER_BASE, 1} :
        LET g == [ScoreG(s, "", t) EXCEPT !.pending.user = {"load", "sync"}]
        IN  /\ State = g.S
            /\ ui = g.ui
            /\ screen = g.screen
            /\ pending = g.pending
            /\ fetched = 0
            /\ board = NoBoard
            /\ last = [op |-> "init", avail |-> 0, ends |-> 0, pre |-> Snapshot(g),
                       q |-> [i \in 1..(s + 1) |->
                                [submits |-> IF i <= s THEN 1 ELSE 0,
                                 timeouts |-> 0]]]

\* the read of loadUserData completes
UserDataLoaded ==
    /\ "load" \in pending.user
    /\ \E snap \in UserSnaps : Becomes(loadUserData(G, snap), "loadUserData")
    /\ UNCHANGED <<fetched, board>>

\* the read of syncCloudData completes
CloudSynced ==
    /\ "sync" \in pending.user
    /\ \E snap \in UserSnaps : Becomes(syncCloudData(G, snap), "syncCloudData")
    /\ UNCHANGED <<fetched, board>>

NextUser ==
    \/ ClickOption
    \/ ResultTimeout
    \/ UserDataLoaded
    \/ CloudSynced

SpecUser == InitUser /\ [][NextUser]_vars

----------------------------------------------------------------------------
(* The level specification: the session of the user-data specification     *)
(* goes on to its end and to further sessions (next set, or home and a new *)
(* start) while the two reads may still complete.                          *)

\* of the answer options of the run all but those of one question are used
InitLevel ==
    \E s \in {0, 3, 4} :
        LET g == [ScoreG(s, "", TIMER_BASE) EXCEPT !.pending.user = {"load", "sync"}]
        IN  /\ State = g.S
            /\ ui = g.ui
            /\ screen = g.screen
            /\ pending = g.pending
            /\ fetched = MaxFetched - 2
            /\ board = NoBoard
            /\ last = [op |-> "init", avail |-> 0, ends |-> 0, pre |-> Snapshot(g),
                       q |-> [i \in 1..(s + 1) |->
                                [submits |-> IF i <= s THEN 1 ELSE 0,
                                 timeouts |-> 0]]]

NextLevel ==
    \/ NextUser
    \/ ClickNext
    \/ ClickNextSet
    \/ ValidateAndStart
    \/ FetchQuestions
    \/ FetchFails
    \/ ClickHome

SpecLevel == InitLevel /\ [][NextLevel]_vars

----------------------------------------------------------------------------
(* The five-question specification: a session of five questions has just   *)
(* been started with the default countdown, and the player answers the     *)
(* i-th question, if at all, when its countdown shows ScenarioTimes[i].     *)

ScenarioTimes == <<15, 12, 9, 6, 3>>

RunQuestions ==
    [i \in 1..Len(ScenarioTimes) |->
        [correct_answer |-> <<"T">>, incorrect_answers |-> << <<"F">> >>,
         answers |-> IF i % 2 = 0 THEN << <<"F">>, <<"T">> >>
                     ELSE << <<"T">>, <<"F">> >>,
         userSelected |-> Undefined]]

RunG ==
    startGame([InitG EXCEPT !.S.questions = RunQuestions,
                            !.S.config = [amount |-> Len(ScenarioTimes),
                                          difficulty |-> ""]])

InitRun ==
    /\ State = RunG.S
    /\ ui = RunG.ui
    /\ screen = RunG.screen
    /\ pending = RunG.pending
    /\ fetched = 0
    /\ board = NoBoard
    /\ last = [op |-> "startGame", avail |-> Len(RunQuestions), ends |-> 0, pre |-> Snapshot(InitG),
               q |-> NoHistory(Len(RunQuestions))]

ClickOnCue == Click({ScenarioTimes[State.currIndex + 1]})

ClickNextAnyTime == Advance(0..TIMER_BASE)

NextRun ==
    \/ ClickOnCue
    \/ ResultTimeout
    \/ Tick
    \/ ClickNextAnyTime
    \/ ClickSkip

SpecRun == InitRun /\ [][NextRun]_vars

----------------------------------------------------------------------------
(* The countdown specification: a session of two questions has just been   *)
(* started with one of the difficulties; the countdown runs, may be frozen, *)
(* and the player acts as in the session specification.                    *)

TimerG(difficulty) ==
    startGame([InitG EXCEPT !.S.questions = SubSeq(RunQuestions, 1, 2),
                            !.S.config = [amount |-> 2,
                                          difficulty |-> difficulty]])

InitTimer ==
    \E difficulty \in AllDifficulties :
        LET g == TimerG(difficulty)
        IN  /\ State = g.S
            /\ ui = g.ui
            /\ screen = g.screen
            /\ pending = g.pending
            /\ fetched = 0
            /\ board = NoBoard
            /\ last = [op |-> "startGame", avail |-> 2, ends |-> 0, pre |-> Snapshot(InitG),
                       q |-> NoHistory(2)]

NextTimer ==
    \/ Tick
    \/ ClickOption
    \/ ResultTimeout
    \/ ClickNext
    \/ ClickFreeze
    \/ Unfreeze

SpecTimer == InitTimer /\ [][NextTimer]_vars

----------------------------------------------------------------------------
(* The leaderboard specification: two sessions of the same player (two     *)
(* tabs) have ended and each endGame has called saveHighScore; the reads   *)
(* and the writes of the two executions are answered in any order.         *)

\* scores the two sessions end with
BoardScores == {0, 10, 25}
\* the player's document before the two sessions end
BoardDocs ==
    {NoUserDoc} \cup
    { [exists |-> TRUE, score |-> sc, totalGames |-> n] :
        sc \in {0, 10, 35}, n \in 1..3 }

\* the session variables are those of a page just loaded and play no part
InitBoard ==
    /\ State = InitG.S
    /\ ui = InitG.ui
    /\ screen = InitG.screen
    /\ pending = InitG.pending
    /\ fetched = 0
    /\ last = [op |-> "init", avail |-> 0, ends |-> 0, pre |-> Snapshot(InitG), q |-> <<>>]
    /\ \E userDoc \in BoardDocs, s1 \in BoardScores, s2 \in BoardScores :
         board = [doc |-> userDoc, prior |-> userDoc,
                  saves |-> <<saveHighScoreCalled(s1), saveHighScoreCalled(s2)>>]

\* the getDoc of execution i is answered
GetDocAnswered ==
    \E i \in DOMAIN board.saves :
        /\ board.saves[i].pc = "getDoc"
        /\ board' = [board EXCEPT
                       !.saves[i] = saveHighScoreRead(board.saves[i], board.doc)]
        /\ UNCHANGED <<State, ui, screen, pending, fetched, last>>

\* the setDoc of execution i is carried out
SetDocDone ==
    \E i \in DOMAIN board.saves :
        /\ board.saves[i].pc = "setDoc"
        /\ board' = [board EXCEPT
                       !.doc = saveHighScoreWritten(board.saves[i]),
                       !.saves[i].pc = "done"]
        /\ UNCHANGED <<State, ui, screen, pending, fetched, last>>

NextBoard ==
    \/ GetDocAnswered
    \/ SetDocDone

SpecBoard == InitBoard /\ [][NextBoard]_vars

----------------------------------------------------------------------------
(* The progress specification: the session of the countdown specification,   *)
(* with the skip lifeline, never quit. The interval of startTimer and the   *)
(* callbacks of the two setTimeout calls run when they are due, and the     *)
(* player clicks the next button when it stays enabled.                     *)

NextLive ==
    \/ NextTimer
    \/ ClickSkip

SpecLive ==
    /\ InitTimer
    /\ [][NextLive]_vars
    /\ WF_vars(Tick)
    /\ WF_vars(ResultTimeout)
    /\ WF_vars(Unfreeze)
    /\ WF_vars(ClickNext)

----------------------------------------------------------------------------
(* Properties *)

\* the question State.currIndex points at, in the history
HistoryOfCurrent == last.q[State.currIndex + 1]
\* handleAnswer has just accepted a submission, and it was the correct answer
AnsweredCorrectly ==
    /\ last.op = "handleAnswer"
    /\ CurrentQuestion(G).userSelected = CurrentQuestion(G).correct_answer
\* handleAnswer has just accepted a submission, and it was an incorrect answer
AnsweredIncorrectly ==
    /\ last.op = "handleAnswer"
    /\ CurrentQuestion(G).userSelected # CurrentQuestion(G).correct_answer

\* C1: a correct submission made with streak s and t seconds left adds
\* round((10 + max(0, t)) * (1 + floor(s / 3) * 0.1)) to score and makes streak
\* s + 1.  p is that rounding exactly when p - 1/2 <= x < p + 1/2; the
\* multiplier is x1.0 for s in 0..2, x1.1 for s in 3..5 and x1.2 for s in 6..8.
C1_CorrectAnswerPoints ==
    /\ AnsweredCorrectly =>
         LET s == last.pre.streak
             t == last.pre.timeLeft
             p == State.score - last.pre.score
             b == 10 + (IF t > 0 THEN t ELSE 0)
             m10 == 10 + (s \div 3)
         IN  /\ State.streak = s + 1
             /\ 10 * p - 5 <= m10 * b /\ m10 * b < 10 * p + 5
             /\ s \in 0..2 => p = b
             /\ s \in 3..5 => m10 = 11
             /\ s \in 6..8 => m10 = 12
             /\ (t = 15 /\ s = 0) => p = 25
    /\ Points(0, 3) = 11

\* a correct answer at streak 3 with 5 seconds left: 15 * 1.1 = 16.5 gives 17
C1_Witness ==
    /\ AnsweredCorrectly
    /\ last.pre.streak = 3 /\ last.pre.timeLeft = 5
    /\ State.score - last.pre.score = 17

\* C2: a submit on a question that a submit or a timeout has already resolved
\* changes none of score, streak, correctCount and wrongCount.
C2_SecondSubmitIgnored ==
    (/\ last.op \in {"handleAnswer", "ignoredAnswer"}
     /\ HasQuestion(G)
     /\ HistoryOfCurrent.submits + HistoryOfCurrent.timeouts
          > (IF last.op = "handleAnswer" THEN 1 ELSE 0))
    => /\ State.score = last.pre.score
       /\ State.streak = last.pre.streak
       /\ State.correctCount = last.pre.correctCount
       /\ State.wrongCount = last.pre.wrongCount

\* C3: while a session is on the quiz or the result screen, correctCount +
\* wrongCount is the number of questions resolved so far: the questions before
\* currIndex and the current one once a submit or a timeout resolved it; on
\* the result screen that is the number of questions.
C3_CountsMatchIndex ==
    /\ screen = "quiz" =>
         State.correctCount + State.wrongCount
           = State.currIndex
               + (IF HistoryOfCurrent.submits + HistoryOfCurrent.timeouts > 0
                  THEN 1 ELSE 0)
    /\ screen = "result" =>
         State.correctCount + State.wrongCount = Len(State.questions)

\* C4: no question is resolved both by a submit and by a timeout.
C4_OneResolver ==
    \A i \in DOMAIN last.q : ~(last.q[i].submits > 0 /\ last.q[i].timeouts > 0)

\* C5: the timeout of a question leaves score and xp as they were and makes
\* streak 0, whatever streak was.
C5_TimeoutZeroPoints ==
    last.op = "handleTimeOut" =>
        /\ State.streak = 0
        /\ State.score = last.pre.score
        /\ State.xp = last.pre.xp

C5_Witness ==
    /\ last.op = "handleTimeOut"
    /\ last.pre.streak > 0
    /\ last.pre.score > 0

\* C6: an incorrect submission adds 1 to wrongCount, makes streak 0 and leaves
\* score, xp, level and correctCount as they were.
C6_IncorrectAnswer ==
    AnsweredIncorrectly =>
        /\ State.wrongCount = last.pre.wrongCount + 1
        /\ State.streak = 0
        /\ State.score = last.pre.score
        /\ State.xp = last.pre.xp
        /\ State.level = last.pre.level
        /\ State.correctCount = last.pre.correctCount

C6_Witness ==
    /\ AnsweredIncorrectly
    /\ last.pre.streak > 0
    /\ last.pre.score > 0

C8_SkipNoPoints ==
    (last.op = "useSkip" /\ last.pre.lifelines.skip) =>
        State.score = last.pre.score

\* the cards of the page that are hidden
HiddenCards == { i \in DOMAIN ui.cards : ui.cards[i].hidden }

\* C9: 50/50 on a question with at least 2 incorrect answers hides exactly 2
\* cards, both incorrect answers, never the correct one, and leaves score and
\* streak as they were.
C9_FiftyFifty ==
    (/\ last.op = "use5050" /\ last.pre.lifelines.fifty
     /\ Len(CurrentQuestion(G).incorrect_answers) >= 2)
    => /\ Cardinality(HiddenCards) = 2
       /\ \A i \in HiddenCards :
            /\ ui.cards[i].ans # CurrentQuestion(G).correct_answer
            /\ ui.cards[i].ans \in Range(CurrentQuestion(G).incorrect_answers)
       /\ State.score = last.pre.score
       /\ State.streak = last.pre.streak

\* C10: a lifeline that was consumed is available again only through a
\* session start (startGame, startNextSet).
C10_LifelinesMonotonic ==
    \A f \in {"fifty", "freeze", "skip"} :
        (~last.pre.lifelines[f] /\ State.lifelines[f]) =>
            last.op \in {"startGame", "startNextSet"}

\* a session that consumed skip was left, and the next start restores it
C10_Witness ==
    /\ last.op = "startGame"
    /\ ~last.pre.lifelines.skip /\ State.lifelines.skip
    /\ ~last.pre.lifelines.freeze /\ State.lifelines.freeze

\* the last step put a question on the page
Presented ==
    \/ last.op \in {"startGame", "renderNextSet"}
    \/ last.op = "nextQuestion" /\ screen = "quiz"
    \/ last.op = "useSkip" /\ last.pre.lifelines.skip /\ screen = "quiz"

\* C11: while isFrozen is true a tick leaves timeLeft as it was and handles no
\* timeout, and isFrozen becomes false again only through the callback of the
\* freeze applied to the question on the page (its 10 seconds are over) or
\* through a change of question (next question, skip, session start).
C11_FrozenUntilOwnUnfreeze ==
    /\ (last.pre.isFrozen
          /\ last.op \in {"frozenTick", "tick", "handleTimeOut", "failedTimeOut"})
       => /\ State.timeLeft = last.pre.timeLeft
          /\ State.timer = last.pre.timer
          /\ ui.nextBtnDisabled = last.pre.nextBtnDisabled
    /\ (last.pre.isFrozen /\ ~State.isFrozen)
       => \/ last.op = "unfreeze"
          \/ Presented
          \/ last.op = "startNextSet"

\* C12: a question newly presented is not frozen, and the callback of a freeze
\* applied to an earlier question changes neither isFrozen nor timeLeft.
C12_StaleUnfreezeHarmless ==
    /\ Presented => ~State.isFrozen
    /\ last.op = "staleUnfreeze"
       => /\ State.isFrozen = last.pre.isFrozen
          /\ State.timeLeft = last.pre.timeLeft

\* C13: once a session was aborted (goHome) no countdown runs, and until a
\* fresh start no tick, timeout or pending callback changes anything: not
\* timeLeft, not the frozen status, not the next button, not the scores.
C13_AbortStopsCallbacks ==
    /\ last.op = "goHome" => ~State.timer
    /\ (screen = "start"
          /\ last.op \in {"tick", "frozenTick", "handleTimeOut", "failedTimeOut",
                          "resultCallback", "unfreeze", "staleUnfreeze"})
       => Snapshot(G) = last.pre

\* C14: currIndex grows only by a nextQuestion on a question that a submit or
\* a timeout has resolved, or by the skip lifeline.
C14_AdvanceOnlyWhenResolved ==
    State.currIndex > last.pre.currIndex
    => \/ last.op = "useSkip" /\ last.pre.lifelines.skip
       \/ /\ last.op = "nextQuestion"
          /\ last.pre.currIndex + 1 \in DOMAIN last.q
          /\ last.q[last.pre.currIndex + 1].submits
               + last.q[last.pre.currIndex + 1].timeouts > 0

\* C15: while a question is on the page currIndex is an index of
\* State.questions (0 <= currIndex < length), and on the result screen it is
\* the length of State.questions.
C15_IndexValid ==
    /\ screen = "quiz" =>
         State.currIndex >= 0 /\ State.currIndex < Len(State.questions)
    /\ screen = "result" => State.currIndex = Len(State.questions)

\* the last of two questions was left with the next button
C15_Witness ==
    /\ screen = "result"
    /\ last.op = "nextQuestion"
    /\ Len(State.questions) = 2
    /\ State.currIndex = 2

\* the last step ended a session: the result screen has just been shown
Completed ==
    /\ screen = "result"
    /\ last.pre.screen = "quiz"

AllCorrectSoFar(k) ==
    /\ Len(State.questions) = Len(ScenarioTimes)
    /\ \A i \in 1..Len(State.questions) :
         /\ last.q[i].timeouts = 0
         /\ last.q[i].submits = (IF i <= k THEN 1 ELSE 0)
         /\ i <= k => State.questions[i].userSelected
                        = State.questions[i].correct_answer
    /\ State.lifelines = [fifty |-> TRUE, freeze |-> TRUE, skip |-> TRUE]

\* in a session of 5 questions in which every answer is given with timeLeft
\* 15, 12, 9, 6, 3 for question 1, 2, 3, 4, 5: after the first k questions
\* were answered correctly and no lifeline was used, streak is k, score is
\* sums[k + 1], correctCount is k and wrongCount is 0, and the session then
\* ends with accuracy 100
FiveAnswers(sums) ==
    /\ last.op = "handleAnswer"
       => last.pre.timeLeft = ScenarioTimes[State.currIndex + 1]
    /\ \A k \in 0..Len(ScenarioTimes) :
         AllCorrectSoFar(k)
         => /\ State.streak = k
            /\ State.score = sums[k + 1]
            /\ State.correctCount = k
            /\ State.wrongCount = 0
            /\ (k = 5 /\ screen = "result") => ui.accuracy = 100

\* C17 as stated: five correct answers at 15, 12, 9, 6, 3 seconds with no
\* lifeline give streaks 1, 2, 3, 4, 5, multipliers 1.0, 1.0, 1.1, 1.1, 1.1,
\* hence points 25, 22, 21, 18, 14 and score 100, with correctCount 5,
\* wrongCount 0 and accuracy 100.
C17_FiveCorrectAnswers ==
    FiveAnswers(<<0, 25, 47, 68, 86, 100>>)

\* C17 amended: the multiplier is taken from the streak before the answer
\* (0, 1, 2, 3, 4), so the multipliers are 1.0, 1.0, 1.0, 1.1, 1.1, the points
\* 25, 22, 19, 18, 14 and the score 98; streaks, counts and accuracy are as
\* stated.
C17_FiveCorrectAnswersAmended ==
    FiveAnswers(<<0, 25, 47, 66, 84, 98>>)

\* the five questions were answered correctly and the session is over
C17_Witness ==
    /\ AllCorrectSoFar(5)
    /\ screen = "result"
    /\ State.score = 98 /\ State.streak = 5
    /\ ui.accuracy = 100

\* C18: no step lowers State.level, whether it adds XP or takes xp and level
\* from the user's document (loadUserData, syncCloudData).
C18_LevelNeverDecreases ==
    State.level >= last.pre.level

\* C19: a step that raises score raises xp by the same amount.
C19_XPFollowsScore ==
    State.score > last.pre.score
    => State.xp - last.pre.xp = State.score - last.pre.score

\* C20: on the result screen xpGained is the score of the session.
C20_XPGainedIsScore ==
    screen = "result" => State.xpGained = State.score

\* a session has just ended with points, not all of them counted into xp
C20_Witness ==
    /\ Completed
    /\ State.score > 0
    /\ State.xp # State.score
    /\ State.xpGained = State.score

\* C21: when fetchQuestions throws (no questions available) no session
\* starts: the setup screen is shown again, there are no questions, and the
\* step presents no question and starts no countdown (timer and timeLeft are
\* what they were).
C21_NoQuestionsNoSession ==
    last.op = "fetchFails"
    => /\ screen = "start"
       /\ State.questions = <<>>
       /\ State.timer = last.pre.timer
       /\ State.timeLeft = last.pre.timeLeft
       /\ pending.fetch = "none"

\* the first start attempt of the page failed
C21_Witness ==
    /\ last.op = "fetchFails"
    /\ last.pre.screen = "loader"
    /\ screen = "start"
    /\ ~State.timer /\ ui.cards = <<>>

\* C22: a session starts with min(requested amount, documents available)
\* questions, at least one, also when fewer are available than requested, and
\* it is complete when currIndex has reached that number.
C22_ShortListAccepted ==
    /\ last.op \in {"startGame", "renderNextSet"}
       => /\ Len(State.questions) >= 1
          /\ Len(State.questions)
               = (IF State.config.amount < last.avail
                  THEN State.config.amount ELSE last.avail)
    /\ Completed => State.currIndex = Len(State.questions)

\* 2 questions were requested, 1 was available: a session of 1 question
C22_Witness ==
    /\ last.op = "startGame"
    /\ State.config.amount = 2 /\ last.avail = 1
    /\ Len(State.questions) = 1

\* C23: a question newly presented has timeLeft 60, 50, 40 for the difficulty
\* easy, medium, hard and 15 for any other; a tick that finds the countdown
\* unfrozen takes exactly 1 from timeLeft, a tick that finds it frozen nothing.
C23_CountdownByDifficulty ==
    /\ Presented
       => State.timeLeft
            = (CASE State.config.difficulty = "easy" -> 60
                 [] State.config.difficulty = "medium" -> 50
                 [] State.config.difficulty = "hard" -> 40
                 [] OTHER -> 15)
    /\ last.op \in {"tick", "handleTimeOut", "failedTimeOut"}
       => State.timeLeft = last.pre.timeLeft - 1
    /\ last.op = "frozenTick" => State.timeLeft = last.pre.timeLeft

\* the second question of a hard session starts at 40 after the first ran down
C23_Witness ==
    /\ Presented
    /\ last.op = "nextQuestion"
    /\ State.config.difficulty = "hard"
    /\ last.pre.timeLeft = 0
    /\ State.timeLeft = 40

C25_OneCountdown ==
    /\ pending.strays = 0
    /\ Presented => State.timer

\* a question was presented while the countdown of an earlier question, of
\* a session left before, was still running
C25_Witness ==
    /\ last.op = "startGame"
    /\ Presented
    /\ last.pre.timer
    /\ State.timer
    /\ pending.strays = 0

\* C26: the resolution of a question, by a submit or by a timeout, adds 1 to
\* exactly one of correctCount and wrongCount and leaves the other as it was.
C26_OneCountPerResolution ==
    last.op \in {"handleAnswer", "handleTimeOut"}
    => \/ /\ State.correctCount = last.pre.correctCount + 1
          /\ State.wrongCount = last.pre.wrongCount
       \/ /\ State.correctCount = last.pre.correctCount
          /\ State.wrongCount = last.pre.wrongCount + 1

\* C27: a lifeline invoked after it was consumed changes nothing: score,
\* streak, currIndex, timeLeft, isFrozen, the countdown, the lifeline flags and
\* the rest of the state the handlers read are what they were.
C27_ConsumedLifelineNoOp ==
    (\/ last.op = "use5050" /\ ~last.pre.lifelines.fifty
     \/ last.op = "useFreeze" /\ ~last.pre.lifelines.freeze
     \/ last.op = "useSkip" /\ ~last.pre.lifelines.skip)
    => Snapshot(G) = last.pre

\* freeze is invoked a second time once its 10 seconds are over
C27_Witness ==
    /\ last.op = "useFreeze"
    /\ ~last.pre.lifelines.freeze
    /\ ~State.isFrozen
    /\ State.timer
    /\ pending.unfreeze = <<>>

\* C28: a session start (startGame, the renderQuestion of startNextSet) leaves
\* currIndex, score, streak, correctCount and wrongCount 0, the three
\* lifelines available and isFrozen false, with question 0 on the page, its
\* cards accepting a click, the guard of handleAnswer open and the next
\* button disabled.
C28_StartResets ==
    last.op \in {"startGame", "renderNextSet"}
    => /\ State.currIndex = 0 /\ State.score = 0 /\ State.streak = 0
       /\ State.correctCount = 0 /\ State.wrongCount = 0
       /\ State.lifelines = [fifty |-> TRUE, freeze |-> TRUE, skip |-> TRUE]
       /\ ~State.isFrozen
       /\ screen = "quiz"
       /\ ui.cards = OptionCards(State.questions[1])
       /\ AnswerGuard(G)
       /\ ui.nextBtnDisabled

\* C29: userSelected of a question is written at most once: the submits
\* handleAnswer accepted and the timeouts handleTimeOut handled for it, each of
\* which writes it, are never more than one together.
C29_UserSelectedWrittenOnce ==
    \A i \in DOMAIN last.q : last.q[i].submits + last.q[i].timeouts <= 1

C31_TierByAccuracy ==
    screen = "result"
    => /\ ui.message = "Quiz Master!" <=> ui.accuracy >= 80
       /\ ui.message = "Good Job!" <=> (ui.accuracy >= 60 /\ ui.accuracy < 80)
       /\ ui.message = "Keep Practicing!" <=> (ui.accuracy >= 40 /\ ui.accuracy < 60)
       /\ ui.message = "Try Again!" <=> ui.accuracy < 40

\* four of five answers were correct: accuracy 80 is in the top tier
C31_Witness ==
    /\ Completed
    /\ State.correctCount = 4 /\ State.wrongCount = 1
    /\ ui.accuracy = 80
    /\ ui.message = "Quiz Master!"

\* C32: the guard of handleAnswer is open when a question is presented, and a
\* click that handleAnswer ignores is a click on a question that a submit or a
\* timeout has resolved before.
C32_FirstSubmitProcessed ==
    /\ Presented => AnswerGuard(G)
    /\ (last.op = "ignoredAnswer" /\ HasQuestion(G))
       => HistoryOfCurrent.submits + HistoryOfCurrent.timeouts > 0

\* C33: a skip of a question that a submit or a timeout has resolved adds
\* nothing to the score.
C33_NoSkipPointsWhenResolved ==
    (/\ last.op = "useSkip"
     /\ last.pre.currIndex + 1 \in DOMAIN last.q
     /\ last.q[last.pre.currIndex + 1].submits
          + last.q[last.pre.currIndex + 1].timeouts > 0)
    => State.score = last.pre.score

\* question i is on the page and neither a submit nor a timeout has resolved it
Awaiting(i) ==
    /\ screen = "quiz"
    /\ State.currIndex + 1 = i
    /\ last.q[i].submits + last.q[i].timeouts = 0

\* a submit or a timeout has resolved question i, or the skip lifeline has
\* just been spent on it
Resolved(i) ==
    \/ last.q[i].submits + last.q[i].timeouts > 0
    \/ /\ last.op = "useSkip"
       /\ last.pre.lifelines.skip
       /\ last.pre.currIndex + 1 = i

\* C34: with the interval and the callbacks running and the player advancing,
\* every question awaiting an answer is eventually resolved by a submit, a
\* timeout or a skip, and the session eventually shows the result screen.
C34_EveryQuestionResolved ==
    /\ \A i \in 1..2 : Awaiting(i) ~> Resolved(i)
    /\ <>(screen = "result")

\* C35: endGame, and with it saveHighScore, runs once in the step that ends a
\* session (the quiz screen gives way to the result screen) and in no other
\* step.
C35_EndGameOnce ==
    last.ends = (IF Completed THEN 1 ELSE 0)

\* the skip lifeline ends the session while the 800 ms callback of the last
\* answer is pending and will run on the result screen
C35_Witness ==
    /\ Completed
    /\ last.op = "useSkip"
    /\ pending.result # <<>>
    /\ last.ends = 1

\* C36: when two saveHighScore executions for one player have both finished,
\* the stored score is the score stored before plus the scores of both
\* sessions, and totalGames is 2 more than before.
C36_NoLostUpdate ==
    (\A i \in DOMAIN board.saves : board.saves[i].pc = "done")
    => /\ board.doc.score
            = board.prior.score + board.saves[1].score + board.saves[2].score
       /\ board.doc.totalGames = board.prior.totalGames + 2

\* C37: a session start (startGame, startNextSet from its click to the first
\* question) leaves xp and level as they were, and after a correct answer,
\* the one step that runs addXP, level is at least floor(xp / 100) + 1.
C37_StartKeepsXPAndLevel ==
    /\ last.op \in {"validateAndStart", "startNextSet", "startGame", "renderNextSet"}
       => State.xp = last.pre.xp /\ State.level = last.pre.level
    /\ AnsweredCorrectly => State.level >= (State.xp \div 100) + 1

\* a correct answer in a session started with the level of the user's
\* document ahead of the xp: addXP leaves the level where it is
C37_Witness ==
    /\ AnsweredCorrectly
    /\ fetched > MaxFetched - 2
    /\ last.pre.xp > 0
    /\ State.level = last.pre.level
    /\ State.level > (State.xp \div 100) + 1

\* C38: on the result screen the score is at most 25 for each question of the
\* session: the 'Potential' value of the chart is not negative.
C38_PotentialNotNegative ==
    screen = "result" => Potential(G) >= 0

\* the number of places of seq that hold x
Count(seq, x) == Cardinality({ i \in DOMAIN seq : seq[i] = x })

\* the answers of q are its incorrect answers and its correct answer, each as
\* often as there, in some order
AnswersArePermutation(q) ==
    LET all == Append(q.incorrect_answers, q.correct_answer)
    IN  /\ Len(q.answers) = Len(q.incorrect_answers) + 1
        /\ Count(q.answers, q.correct_answer) >= 1
        /\ \A x \in Range(all) \cup Range(q.answers) :
              Count(q.answers, x) = Count(all, x)

\* C39: the answers of every question of the session are a permutation of its
\* incorrect answers plus its correct answer, and no step other than the
\* loading of a new list of questions changes them.
C39_AnswersFixed ==
    /\ [](\A i \in DOMAIN State.questions :
            AnswersArePermutation(State.questions[i]))
    /\ [][(/\ last'.op \notin {"startGame", "renderNextSet"}
           /\ Len(State.questions') = Len(State.questions))
          => \A i \in DOMAIN State.questions :
                State.questions'[i].answers = State.questions[i].answers]_vars

\* 50/50 has hidden two cards of a question of three answers, which are all
\* still in its list
C39_Witness ==
    /\ last.op = "use5050" /\ last.pre.lifelines.fifty
    /\ HiddenCards # {}
    /\ Len(CurrentQuestion(G).answers) = 3
    /\ AnswersArePermutation(CurrentQuestion(G))

====
